---- MODULE Spec2Model ----
(***************************************************************************)
(* A model of the water-billing portal: the hosted store (tables, column   *)
(* defaults, generated columns, CHECK constraints and row level security   *)
(* policies of the schema migration) and the two dashboards that issue     *)
(* reads and writes against it.                                            *)
(*                                                                         *)
(* Money and meter readings are DECIMAL(10,2); they are kept as integers   *)
(* counting hundredths, so 150.00 is 15000 and the tariff 50.00 is 5000.   *)
(* The inputs drawn below stay far inside the DECIMAL(10,2) range, so the  *)
(* store's numeric-overflow rejection is not exercised.                    *)
(***************************************************************************)
EXTENDS Integers, Sequences, FiniteSets, TLC

\* ------------------------------------------------------------------ bounds
MaxBills == 2
MaxPayments == 2
MaxComplaints == 2
MaxFetches == 2

\* ------------------------------------------------------- identities, roles
\* Authenticated identities (auth.users) and their profile rows.
Users == {"ua", "u1", "u2"}
ProfileIds == {"pa", "p1", "p2"}
Customers == {"u1", "u2"}

\* ------------------------------------------------------------ value shapes
\* A JSON number field of a request: absent, null, or a number (hundredths).
Num(v) == [k |-> "num", v |-> v]
NullV == [k |-> "null", v |-> 0]
AbsentV == [k |-> "absent", v |-> 0]
NaN == [k |-> "nan", v |-> 0]

BillStatuses == {"pending", "paid", "overdue"}
PaymentMethods == {"mpesa", "bank_transfer", "cash"}
PaymentStatuses == {"pending", "completed", "failed"}
ComplaintStatuses == {"open", "in_progress", "resolved", "closed"}
Priorities == {"low", "medium", "high", "urgent"}

\* rate_per_unit DEFAULT 50.00, in hundredths.
DefaultRate == 5000
\* Scale factor of a DECIMAL(10,2) column: two fractional digits.
Scale == 100

VARIABLES
    profiles,       \* public.profiles: profile id -> row
    bills,          \* public.bills: sequence of rows, id = position
    payments,       \* public.payments: sequence of rows, id = position
    complaints,     \* public.complaints: sequence of rows, id = position
    api,            \* outcome of the latest request issued outside the dashboards
    newBill,        \* AdminDashboard: the Create Bill form
    customers,      \* AdminDashboard: fetched customers list (profile ids)
    adminToast,     \* AdminDashboard: last notification shown (first session)
    adComplaints,   \* AdminDashboard, per session: fetched complaints list
    complaintsResponse, \* AdminDashboard, per session: response text per complaint
    customerRows,   \* AdminDashboard: the customers list in the order the store returned
                    \* it on mount or refresh, with the tables as they were at that read
    profileData,    \* CustomerDashboard, per customer: the Profile form
    cdProfile,      \* CustomerDashboard, per customer: the profile useProfile returns
    cdPayments,     \* CustomerDashboard, per customer: fetched payments list
    cdComplaints,   \* CustomerDashboard, per customer: fetched complaints list
    inflight,       \* CustomerDashboard, per customer: fetchData invocations awaiting a read
    startedAt,      \* per customer: the store as it was when fetchData was last invoked
                    \* (<<>> before the first invocation)
    session,        \* Dashboard page: what useAuth and useProfile return
    rendered,       \* Dashboard page: the view last rendered
    cdBills,        \* CustomerDashboard, per customer: fetched bills list
    paymentData,    \* CustomerDashboard, per customer: the Make Payment form
    complaintData,  \* CustomerDashboard, per customer: the New Complaint form
    priorityEdited, \* per customer: priority field changed since the form was last (re)set
    pc,             \* CustomerDashboard, per customer: position inside makePayment
    toast           \* CustomerDashboard, per customer: last notification shown

storeVars == <<profiles, bills, payments, complaints>>
adminVars == <<newBill, customers, adminToast>>
custVars == <<cdBills, paymentData, complaintData, priorityEdited, pc, toast>>
deskVars == <<adComplaints, complaintsResponse, customerRows, profileData>>
viewVars == <<cdProfile, cdPayments, cdComplaints, inflight, startedAt, session, rendered>>
vars == <<profiles, bills, payments, complaints, api, newBill, customers,
          adminToast, cdBills, paymentData, complaintData, priorityEdited, pc, toast,
          adComplaints, complaintsResponse, customerRows, profileData,
          cdProfile, cdPayments, cdComplaints, inflight, startedAt, session, rendered>>

\* ------------------------------------------------------------- the store
\* auth.uid() = user_id: the profiles of the calling identity.
OwnProfiles(u) == {p \in ProfileIds : profiles[p].user_id = u}

\* EXISTS (SELECT 1 FROM profiles WHERE user_id = auth.uid() AND is_admin = TRUE)
IsAdminCaller(u) == \E p \in ProfileIds : profiles[p].user_id = u /\ profiles[p].is_admin

\* Policy "Users can update their own profile": FOR UPDATE USING
\* (auth.uid() = user_id). It is the only UPDATE policy on profiles, and it
\* names no column.
ProfileUpdateVisible(u, p) == p \in ProfileIds /\ profiles[p].user_id = u

\* meter_number TEXT UNIQUE: a value another row holds is refused (NULLs do
\* not collide).
ProfilePatchValid(p, patch) ==
    \/ patch.meter_number \in {"absent", "NULL"}
    \/ \A q \in ProfileIds \ {p} : profiles[q].meter_number # patch.meter_number

ProfilePatched(row, patch) ==
    [row EXCEPT !.phone_number = IF patch.phone_number = "absent" THEN @ ELSE patch.phone_number,
                !.meter_number = IF patch.meter_number = "absent" THEN @ ELSE patch.meter_number,
                !.is_admin = IF patch.is_admin = "absent" THEN @ ELSE patch.is_admin = "true"]

\* update(patch) of the profile rows in ps by caller u: the error flag and the
\* table after it. A statement that fails changes no row.
ProfileUpdateError(u, ps, patch) ==
    \E p \in ps : ProfileUpdateVisible(u, p) /\ ~ProfilePatchValid(p, patch)

ProfilesAfterUpdate(u, ps, patch) ==
    IF ProfileUpdateError(u, ps, patch) THEN profiles
    ELSE [p \in DOMAIN profiles |->
            IF p \in ps /\ ProfileUpdateVisible(u, p) THEN ProfilePatched(profiles[p], patch)
            ELSE profiles[p]]

\* (variant) a DELETE policy admitting every caller.
DeleteVisibleAny(u, tbl, id) == u \in Users

\* Row level security is enabled on the four tables and no policy is FOR
\* DELETE (or FOR ALL): a delete matches no row, for every caller.
DeleteVisible(u, tbl, id) == FALSE

\* A sequence table without the row at position id.
Removed(tbl, id) ==
    IF id \in 1..Len(tbl) THEN SubSeq(tbl, 1, id - 1) \o SubSeq(tbl, id + 1, Len(tbl))
    ELSE tbl

\* Rounding of a product of two DECIMAL(10,2) values (n counts 1/10000) to the
\* two fractional digits of the column, half away from zero.
RoundToScale(n) ==
    IF n >= 0 THEN (n + Scale \div 2) \div Scale
    ELSE -(((-n) + Scale \div 2) \div Scale)

\* units_consumed GENERATED ALWAYS AS (current_reading - previous_reading)
UnitsConsumed(prev, cur) == cur - prev

\* amount GENERATED ALWAYS AS ((current_reading - previous_reading) * rate_per_unit)
Amount(prev, cur, rate) == RoundToScale((cur - prev) * rate)

\* (variant) amount and units_consumed as ordinary columns that an update of
\* the rate leaves as they were.
BillPatchedStale(b, patch) ==
    [b EXCEPT !.rate_per_unit = IF patch.rate_per_unit.k = "absent" THEN @ ELSE patch.rate_per_unit.v,
              !.status = IF patch.status = "absent" THEN @ ELSE patch.status]

\* (variant) a store that validates the order of the readings.
BillInsertValidOrdered(row) ==
    /\ row.customer_id \in ProfileIds
    /\ row.current_reading.k = "num"
    /\ row.previous_reading.k = "num"
    /\ row.current_reading.v >= row.previous_reading.v

\* (variant) no INSERT policy check on bills.
BillInsertAllowedAny(u) == u \in Users

\* A bills row with its generated columns computed by the store.
BillRow(cust, prev, cur, rate, status) ==
    [customer_id |-> cust,
     previous_reading |-> prev,
     current_reading |-> cur,
     rate_per_unit |-> rate,
     units_consumed |-> UnitsConsumed(prev, cur),
     amount |-> Amount(prev, cur, rate),
     status |-> status]

\* Column constraints of an INSERT into bills: the foreign key on customer_id,
\* NOT NULL columns, the status CHECK (satisfied by NULL, which the column
\* accepts), and the generated columns, which accept no supplied value.
BillInsertValid(row) ==
    /\ row.customer_id \in ProfileIds
    /\ row.previous_reading.k \in {"absent", "num"}
    /\ row.current_reading.k = "num"
    /\ row.rate_per_unit.k \in {"absent", "num"}
    /\ row.status \in BillStatuses \cup {"absent", "NULL"}
    /\ row.units_consumed.k = "absent"
    /\ row.amount.k = "absent"

\* Policy "Admins can create bills": FOR INSERT WITH CHECK (caller is an admin).
BillInsertAllowed(u) == IsAdminCaller(u)

\* An insert is accepted when the policy admits it and the constraints hold.
BillInsertOk(u, row) == BillInsertAllowed(u) /\ BillInsertValid(row)

\* The stored row of an accepted insert: column defaults fill what is absent.
BillInserted(row) ==
    BillRow(row.customer_id,
            IF row.previous_reading.k = "absent" THEN 0 ELSE row.previous_reading.v,
            row.current_reading.v,
            IF row.rate_per_unit.k = "absent" THEN DefaultRate ELSE row.rate_per_unit.v,
            IF row.status = "absent" THEN "pending" ELSE row.status)

\* Policy "Admins can update bills": FOR UPDATE USING (caller is an admin);
\* for any other caller the update matches no row.
BillUpdateVisible(u, id) == id \in 1..Len(bills) /\ IsAdminCaller(u)

\* A patch naming a generated column is refused whatever rows it matches; a
\* patch that reaches a row must keep NOT NULL and the status CHECK.
BillPatchRefused(patch) == patch.units_consumed.k # "absent" \/ patch.amount.k # "absent"

BillPatchValid(patch) ==
    /\ patch.rate_per_unit.k \in {"absent", "num"}
    /\ patch.status \in BillStatuses \cup {"absent", "NULL"}

\* The row after an accepted update: generated columns are recomputed.
BillPatched(b, patch) ==
    BillRow(b.customer_id, b.previous_reading, b.current_reading,
            IF patch.rate_per_unit.k = "absent" THEN b.rate_per_unit ELSE patch.rate_per_unit.v,
            IF patch.status = "absent" THEN b.status ELSE patch.status)

\* update(patch).eq('id', id) by caller u: the error flag and the table after it.
BillUpdateError(u, id, patch) ==
    \/ BillPatchRefused(patch)
    \/ (BillUpdateVisible(u, id) /\ ~BillPatchValid(patch))

BillsAfterUpdate(u, id, patch) ==
    IF BillUpdateError(u, id, patch) \/ ~BillUpdateVisible(u, id)
    THEN bills
    ELSE [bills EXCEPT ![id] = BillPatched(bills[id], patch)]

\* ---------------------------------------------------------------- payments
\* (variant) a store that compares a payment's amount with its bill's.
PaymentInsertValidAmount(row) ==
    /\ row.bill_id \in 1..Len(bills)
    /\ row.customer_id \in ProfileIds
    /\ row.amount.k = "num"
    /\ row.amount.v = bills[row.bill_id].amount
    /\ row.payment_method \in PaymentMethods
    /\ row.status \in PaymentStatuses \cup {"absent", "NULL"}

\* (variant) a payments table with UNIQUE (bill_id).
PaymentInsertValidOnce(row) ==
    /\ row.bill_id \in 1..Len(bills)
    /\ row.customer_id \in ProfileIds
    /\ row.amount.k = "num"
    /\ row.payment_method \in PaymentMethods
    /\ row.status \in PaymentStatuses \cup {"absent", "NULL"}
    /\ \A i \in 1..Len(payments) : payments[i].bill_id # row.bill_id

\* Column constraints of an INSERT into payments: both foreign keys, NOT NULL
\* amount, the payment_method and status CHECKs. bill_id 0 stands for '' (no
\* bill chosen), which is no uuid.
PaymentInsertValid(row) ==
    /\ row.bill_id \in 1..Len(bills)
    /\ row.customer_id \in ProfileIds
    /\ row.amount.k = "num"
    /\ row.payment_method \in PaymentMethods
    /\ row.status \in PaymentStatuses \cup {"absent", "NULL"}

\* (variant) no INSERT policy check on payments.
PaymentInsertAllowedAny(u, row) == u \in Users

\* Policy "Customers can create payments": FOR INSERT WITH CHECK
\* (customer_id IN (SELECT id FROM profiles WHERE user_id = auth.uid())).
PaymentInsertAllowed(u, row) == row.customer_id \in OwnProfiles(u)

PaymentInsertOk(u, row) == PaymentInsertAllowed(u, row) /\ PaymentInsertValid(row)

\* (variant) a payments table whose status defaults to 'pending'.
PaymentInsertedPending(row) ==
    [bill_id |-> row.bill_id,
     customer_id |-> row.customer_id,
     amount |-> row.amount.v,
     payment_method |-> row.payment_method,
     status |-> IF row.status = "absent" THEN "pending" ELSE row.status]

\* The stored row: status DEFAULT 'completed'.
PaymentInserted(row) ==
    [bill_id |-> row.bill_id,
     customer_id |-> row.customer_id,
     amount |-> row.amount.v,
     payment_method |-> row.payment_method,
     status |-> IF row.status = "absent" THEN "completed" ELSE row.status]

\* -------------------------------------------------------------- complaints
\* Column constraints of an INSERT into complaints: the foreign key and the
\* status and priority CHECKs (subject and description are free text).
ComplaintInsertValid(row) ==
    /\ row.customer_id \in ProfileIds
    /\ row.status \in ComplaintStatuses \cup {"absent", "NULL"}
    /\ row.priority \in Priorities \cup {"absent", "NULL"}

\* Policy "Customers can create complaints": FOR INSERT WITH CHECK
\* (customer_id IN (SELECT id FROM profiles WHERE user_id = auth.uid())).
ComplaintInsertAllowed(u, row) == row.customer_id \in OwnProfiles(u)

ComplaintInsertOk(u, row) == ComplaintInsertAllowed(u, row) /\ ComplaintInsertValid(row)

\* The stored row: status DEFAULT 'open', priority DEFAULT 'medium',
\* admin_response left NULL.
ComplaintInserted(row) ==
    [customer_id |-> row.customer_id,
     status |-> IF row.status = "absent" THEN "open" ELSE row.status,
     priority |-> IF row.priority = "absent" THEN "medium" ELSE row.priority,
     admin_response |-> "NULL"]

\* Policies "Customers can update their own complaints" and "Admins can update
\* all complaints": FOR UPDATE USING (...); for any other caller the update
\* matches no row.
ComplaintUpdateVisible(u, id) ==
    /\ id \in 1..Len(complaints)
    /\ (complaints[id].customer_id \in OwnProfiles(u) \/ IsAdminCaller(u))

\* A patch that reaches a row must keep the status and priority CHECKs; a CHECK
\* is satisfied by NULL, and both columns accept NULL.
ComplaintPatchValid(patch) ==
    /\ patch.status \in ComplaintStatuses \cup {"absent", "NULL"}
    /\ patch.priority \in Priorities \cup {"absent", "NULL"}

\* The row after an accepted update: one statement sets every column named.
ComplaintPatched(c, patch) ==
    [c EXCEPT !.status = IF patch.status = "absent" THEN @ ELSE patch.status,
              !.priority = IF patch.priority = "absent" THEN @ ELSE patch.priority,
              !.admin_response = IF patch.admin_response = "absent" THEN @
                                 ELSE patch.admin_response]

\* update(patch).eq('id', id) by caller u: the error flag and the table after it.
ComplaintUpdateError(u, id, patch) ==
    ComplaintUpdateVisible(u, id) /\ ~ComplaintPatchValid(patch)

\* (variant) a store that leaves a resolved or closed complaint as it is.
ComplaintsAfterUpdateGuarded(u, id, patch) ==
    IF /\ ComplaintUpdateVisible(u, id) /\ ComplaintPatchValid(patch)
       /\ complaints[id].status \notin {"resolved", "closed"}
    THEN [complaints EXCEPT ![id] = ComplaintPatched(complaints[id], patch)]
    ELSE complaints

ComplaintsAfterUpdate(u, id, patch) ==
    IF ComplaintUpdateVisible(u, id) /\ ComplaintPatchValid(patch)
    THEN [complaints EXCEPT ![id] = ComplaintPatched(complaints[id], patch)]
    ELSE complaints

\* ------------------------------------------------------- session identity
\* useProfile(): the profile row of the signed-in identity (each identity
\* owns one profile, created by the registration trigger).
ProfileOf(u) == CHOOSE p \in ProfileIds : profiles[p].user_id = u

\* The identity signed in on the admin dashboard.
AdminUser == "ua"

\* ------------------------------------------------------------ conversions
\* The text of a number input: empty, or the decimal digits of a number
\* (kept as the hundredths it denotes, so "150.01" is Text(15001)).
EmptyText == [k |-> "empty", v |-> 0]
Text(n) == [k |-> "digits", v |-> n]

\* parseFloat of such a text: NaN for the empty field, else the number typed.
parseFloat(text) == IF text.k = "digits" THEN Num(text.v) ELSE NaN

\* Number.prototype.toString of a fetched amount: its decimal digits.
toString(n) == Text(n)

\* JSON.stringify of a request body: NaN is serialised as null.
ToJson(x) == IF x.k = "nan" THEN NullV ELSE x

\* ------------------------------------------------------- admin dashboard
EmptyNewBill == [customer_id |-> "", previous_reading |-> EmptyText, current_reading |-> EmptyText]

\* Texts the admin types into the two reading inputs: "100" or "200.01" as the
\* previous reading; nothing or "150" as the current one.
PreviousTexts == {Text(10000), Text(20001)}
CurrentTexts == {EmptyText, Text(15000)}

\* What the Create Bill dialog can hold: a customer picked from the fetched
\* list (or none) and the two reading texts.
\* The meter number, bill month and due date
\* are taken as filled in with values the store accepts.
NewBillForms ==
    [customer_id : {""} \cup customers,
     previous_reading : PreviousTexts,
     current_reading : CurrentTexts]

\* fetchData of the admin dashboard, customers list:
\* from('profiles').select('*').eq('is_admin', false), under the profiles
\* SELECT policies (own profile, or all profiles for an admin).
AdminFetchCustomers ==
    {p \in ProfileIds :
        /\ (profiles[p].user_id = AdminUser \/ IsAdminCaller(AdminUser))
        /\ profiles[p].is_admin = FALSE}

fetchDataAdmin ==
    /\ customers' = AdminFetchCustomers
    /\ UNCHANGED <<viewVars, deskVars, storeVars, api, newBill, adminToast, custVars>>

\* The orders in which a read without ORDER BY may return the rows of a set:
\* the statement fixes none, so every arrangement is a possible answer.
Orders(S) ==
    {o \in [1..Cardinality(S) -> S] : \A i, j \in 1..Cardinality(S) : i # j => o[i] # o[j]}

NotFetched == [rows |-> <<>>, seen |-> <<>>]

\* fetchData on mount or refresh, customers read: select('*').eq('is_admin',
\* false) with no .order(...); the rows arrive in the order the store chose.
fetchCustomers(order) ==
    /\ order \in Orders(AdminFetchCustomers)
    /\ customers' = AdminFetchCustomers
    /\ customerRows' = [rows |-> order, seen |-> storeVars]
    /\ UNCHANGED <<viewVars, storeVars, api, newBill, adminToast, custVars, adComplaints,
                   complaintsResponse, profileData>>

\* (variant) the two readings sent under each other's column.
createBillRowSwapped(f) ==
    [customer_id |-> f.customer_id,
     previous_reading |-> ToJson(parseFloat(f.current_reading)),
     current_reading |-> ToJson(parseFloat(f.previous_reading)),
     rate_per_unit |-> AbsentV,
     status |-> "absent",
     units_consumed |-> AbsentV,
     amount |-> AbsentV]

\* The row createBill sends: no rate, no status, no generated column.
createBillRow(f) ==
    [customer_id |-> f.customer_id,
     previous_reading |-> ToJson(parseFloat(f.previous_reading)),
     current_reading |-> ToJson(parseFloat(f.current_reading)),
     rate_per_unit |-> AbsentV,
     status |-> "absent",
     units_consumed |-> AbsentV,
     amount |-> AbsentV]

\* (variant) createBill that clears the form whatever the insert answered.
createBillResetAlways(f, delivered) ==
    /\ Len(bills) < MaxBills
    /\ LET ok == delivered /\ BillInsertOk(AdminUser, createBillRow(f))
       IN /\ bills' = IF ok THEN Append(bills, BillInserted(createBillRow(f))) ELSE bills
          /\ adminToast' = IF ok THEN "success" ELSE "error"
          /\ newBill' = EmptyNewBill
          /\ customers' = IF ok THEN AdminFetchCustomers ELSE customers
    /\ UNCHANGED <<viewVars, deskVars, profiles, payments, complaints, api, custVars>>

\* createBill with the dialog holding f: the insert, then on success the
\* notification, the form reset and a refetch; on error the notification only.
\* delivered = FALSE is a request the network lost.
createBill(f, delivered) ==
    /\ Len(bills) < MaxBills
    /\ LET ok == delivered /\ BillInsertOk(AdminUser, createBillRow(f))
       IN /\ bills' = IF ok THEN Append(bills, BillInserted(createBillRow(f))) ELSE bills
          /\ adminToast' = IF ok THEN "success" ELSE "error"
          /\ newBill' = IF ok THEN EmptyNewBill ELSE f
          /\ customers' = IF ok THEN AdminFetchCustomers ELSE customers
    /\ UNCHANGED <<viewVars, deskVars, profiles, payments, complaints, api, custVars>>

\* Browser sessions in which the admin has the dashboard open.
AdminSessions == {"s1", "s2"}

\* The ids of a set ordered newest first (descending id).
RECURSIVE NewestIds(_)
NewestIds(ids) ==
    IF ids = {} THEN <<>>
    ELSE LET top == CHOOSE i \in ids : \A j \in ids : j <= i
         IN <<top>> \o NewestIds(ids \ {top})

\* fetchData of the admin dashboard, complaints list: every complaint (policy
\* "Admins can view all complaints"), newest first, read from the table tbl;
\* the fields the dashboard's logic reads are kept.
AdminComplaintsOf(tbl) ==
    LET order == NewestIds({i \in 1..Len(tbl) : IsAdminCaller(AdminUser)})
    IN [k \in 1..Len(order) |-> [id |-> order[k], status |-> tbl[order[k]].status]]

\* (variant) a pending count that takes every unresolved complaint.
PendingInUnresolved(list) ==
    LET isOpen(c) == c.status \notin {"resolved", "closed"} IN Len(SelectSeq(list, isOpen))

\* stats.pendingComplaints = complaints.filter(c => c.status === 'open').length
PendingIn(list) ==
    LET isOpen(c) == c.status = "open" IN Len(SelectSeq(list, isOpen))

pendingComplaints(s) == PendingIn(adComplaints[s])

fetchComplaints(s) ==
    /\ adComplaints' = [adComplaints EXCEPT ![s] = AdminComplaintsOf(complaints)]
    /\ UNCHANGED <<viewVars, storeVars, api, adminVars, custVars, complaintsResponse, customerRows, profileData>>

\* The response textarea of a listed complaint; it is rendered, with the two
\* buttons, only while the listed status is neither 'resolved' nor 'closed'.
ActionsShown(s, k) ==
    /\ k \in 1..Len(adComplaints[s])
    /\ adComplaints[s][k].status \notin {"resolved", "closed"}

typeResponse(s, k, text) ==
    /\ ActionsShown(s, k)
    /\ complaintsResponse' = [complaintsResponse EXCEPT ![s][adComplaints[s][k].id] = text]
    /\ UNCHANGED <<viewVars, storeVars, api, adminVars, custVars, adComplaints, customerRows, profileData>>

\* (variant) updateComplaintStatus writing the status alone.
updateComplaintPatchStatusOnly(status, response) ==
    [status |-> status, admin_response |-> "absent", priority |-> "absent"]

\* (variant) updateComplaintStatus sending the response only when one is typed.
updateComplaintPatchTyped(status, response) ==
    [status |-> status,
     admin_response |-> IF response = "" THEN "absent" ELSE response,
     priority |-> "absent"]

\* The patch updateComplaintStatus sends: the status and the response together.
updateComplaintPatch(status, response) ==
    [status |-> status, admin_response |-> response, priority |-> "absent"]

\* updateComplaintStatus from the button of the k-th listed complaint of
\* session s (Mark In Progress, Mark Resolved): one update of status and
\* admin_response, then on success the notification and a refetch; on error
\* the notification only. The response text is kept.
updateComplaintStatus(s, k, status, delivered) ==
    /\ ActionsShown(s, k)
    /\ status \in {"in_progress", "resolved"}
    /\ LET id == adComplaints[s][k].id
           patch == updateComplaintPatch(status, complaintsResponse[s][id])
           ok == delivered /\ ~ComplaintUpdateError(AdminUser, id, patch)
       IN /\ complaints' = IF delivered THEN ComplaintsAfterUpdate(AdminUser, id, patch)
                           ELSE complaints
          /\ adminToast' = IF s = "s1" THEN (IF ok THEN "success" ELSE "error") ELSE adminToast
          /\ adComplaints' = IF ok THEN [adComplaints EXCEPT ![s] = AdminComplaintsOf(complaints')]
                             ELSE adComplaints
    /\ UNCHANGED <<viewVars, profiles, bills, payments, api, newBill, customers, custVars,
                   complaintsResponse, customerRows, profileData>>

\* ------------------------------------------------ requests outside the app
\* Any signed-in identity can call the store's table API directly; the
\* policies and constraints alone decide such a request.
NoApi == [caller |-> "", op |-> "", error |-> FALSE]

StatusPaidPatch ==
    [status |-> "paid", rate_per_unit |-> AbsentV,
     units_consumed |-> AbsentV, amount |-> AbsentV]

\* Patches a direct caller may send: the status write of makePayment, the
\* fractional tariffs 0.33 and 0.50 (33 and 50 hundredths), a supplied amount,
\* a bad status.
BillPatches ==
    { StatusPaidPatch,
      [StatusPaidPatch EXCEPT !.status = "absent", !.rate_per_unit = Num(33)],
      [StatusPaidPatch EXCEPT !.status = "absent", !.rate_per_unit = Num(50)],
      [StatusPaidPatch EXCEPT !.status = "absent", !.amount = Num(0)],
      [StatusPaidPatch EXCEPT !.status = "bogus"] }

BillRows ==
    { [createBillRow([customer_id |-> "p1", previous_reading |-> Text(10000),
                      current_reading |-> Text(15000)]) EXCEPT !.amount = a, !.status = s]
        : a \in {AbsentV, Num(0)}, s \in {"absent", "bogus"} }

ApiInsertBill(u, row) ==
    /\ Len(bills) < MaxBills
    /\ bills' = IF BillInsertOk(u, row) THEN Append(bills, BillInserted(row)) ELSE bills
    /\ api' = [caller |-> u, op |-> "insert_bills", error |-> ~BillInsertOk(u, row)]
    /\ UNCHANGED <<viewVars, deskVars, profiles, payments, complaints, adminVars, custVars>>

ApiUpdateBill(u, id, patch) ==
    /\ id \in 1..Len(bills)
    /\ bills' = BillsAfterUpdate(u, id, patch)
    /\ api' = [caller |-> u, op |-> "update_bills", error |-> BillUpdateError(u, id, patch)]
    /\ UNCHANGED <<viewVars, deskVars, profiles, payments, complaints, adminVars, custVars>>

\* ---------------------------------------------------- customer dashboard
\* The ids of a set ordered newest first (descending id).
RECURSIVE NewestFirst(_)
NewestFirst(ids) ==
    IF ids = {} THEN <<>>
    ELSE LET top == CHOOSE i \in ids : \A j \in ids : j <= i
         IN <<top>> \o NewestFirst(ids \ {top})

\* Policy "Customers can view their own bills" (or "Admins can view all bills"),
\* for a row of the bills table.
BillVisible(u, b) == b.customer_id \in OwnProfiles(u) \/ IsAdminCaller(u)

\* (variant) a bills read with no filter and no policy: every row of the table.
CustomerBillsOfAll(tbl, u) ==
    LET order == NewestFirst(1..Len(tbl))
    IN [k \in 1..Len(order) |->
          [id |-> order[k], status |-> tbl[order[k]].status,
           amount |-> tbl[order[k]].amount]]

\* from('bills').select('*').eq('customer_id', profile.id), newest first, read
\* from the table tbl under the SELECT policies; the fields the dashboard's
\* logic reads are kept.
CustomerBillsOf(tbl, u) ==
    LET order == NewestFirst({i \in 1..Len(tbl) :
                                tbl[i].customer_id = ProfileOf(u) /\ BillVisible(u, tbl[i])})
    IN [k \in 1..Len(order) |->
          [id |-> order[k], status |-> tbl[order[k]].status,
           amount |-> tbl[order[k]].amount]]

\* fetchData, bills list, read from the store as it is.
CustomerFetchBills(u) == CustomerBillsOf(bills, u)

fetchBills(u) ==
    /\ cdProfile[u] # "none"
    /\ cdBills' = [cdBills EXCEPT ![u] = CustomerFetchBills(u)]
    /\ UNCHANGED <<viewVars, deskVars, storeVars, api, adminVars, paymentData, complaintData,
                   priorityEdited, pc, toast>>

\* Policies "Customers can view their own payments" and "Admins can view all
\* payments", for a row of the payments table.
PaymentVisible(u, r) == r.customer_id \in OwnProfiles(u) \/ IsAdminCaller(u)

\* Policies "Customers can view their own complaints" and "Admins can view all
\* complaints", for a row of the complaints table.
ComplaintVisible(u, r) == r.customer_id \in OwnProfiles(u) \/ IsAdminCaller(u)

\* from('payments').select('*').eq('customer_id', profile.id), newest first,
\* read from the table tbl under the SELECT policies.
CustomerPaymentsOf(tbl, u) ==
    LET order == NewestFirst({i \in 1..Len(tbl) :
                                tbl[i].customer_id = ProfileOf(u) /\ PaymentVisible(u, tbl[i])})
    IN [k \in 1..Len(order) |->
          [id |-> order[k], bill_id |-> tbl[order[k]].bill_id,
           amount |-> tbl[order[k]].amount, status |-> tbl[order[k]].status]]

\* from('complaints').select('*').eq('customer_id', profile.id), newest first,
\* read from the table tbl under the SELECT policies.
CustomerComplaintsOf(tbl, u) ==
    LET order == NewestFirst({i \in 1..Len(tbl) :
                                tbl[i].customer_id = ProfileOf(u) /\ ComplaintVisible(u, tbl[i])})
    IN [k \in 1..Len(order) |->
          [id |-> order[k], status |-> tbl[order[k]].status,
           admin_response |-> tbl[order[k]].admin_response]]

\* The complaint card: {complaint.admin_response && (...)}, the Admin Response
\* box is rendered for a response that is neither null nor ''.
AdminResponseShown(c) == c.admin_response \notin {"NULL", ""}

\* fetchData, complaints list, the read answered at once.
fetchOwnComplaints(u) ==
    /\ cdProfile[u] # "none"
    /\ cdComplaints' = [cdComplaints EXCEPT ![u] = CustomerComplaintsOf(complaints, u)]
    /\ UNCHANGED <<cdProfile, cdPayments, inflight, startedAt, session, rendered, deskVars,
                   storeVars, api, adminVars, custVars>>

\* The initial state of the two forms (useState).
EmptyPaymentData == [bill_id |-> 0, amount |-> EmptyText, payment_method |-> ""]
InitialComplaintData == [priority |-> "medium"]

\* (variant) a filter that takes every bill not yet paid.
pendingBillsUnpaid(u) ==
    LET isUnpaid(e) == e.status # "paid" IN SelectSeq(cdBills[u], isUnpaid)

\* pendingBills = bills.filter(bill => bill.status === 'pending')
pendingBills(u) ==
    LET isPending(e) == e.status = "pending" IN SelectSeq(cdBills[u], isPending)

\* reduce((sum, bill) => sum + bill.amount, 0) over a list of bills.
RECURSIVE SumAmounts(_)
SumAmounts(list) ==
    IF list = <<>> THEN 0 ELSE list[1].amount + SumAmounts(Tail(list))

\* The Outstanding Bills and Total Outstanding cards.
outstandingBills(u) == Len(pendingBills(u))
totalOutstanding(u) == SumAmounts(pendingBills(u))

\* The Select Bill control: an option per pending bill; choosing one sets
\* bill_id and copies the bill's amount, as text, into the disabled amount input.
selectBill(u, k) ==
    /\ pc[u] = "idle"
    /\ k \in 1..Len(pendingBills(u))
    /\ paymentData' = [paymentData EXCEPT ![u].bill_id = pendingBills(u)[k].id,
                                          ![u].amount = toString(pendingBills(u)[k].amount)]
    /\ UNCHANGED <<viewVars, deskVars, storeVars, api, adminVars, cdBills, complaintData,
                   priorityEdited, pc, toast>>

\* The amount input of the Make Payment dialog is rendered with `disabled`.
AmountInputDisabled == TRUE

\* The amount input's onChange: it copies the text typed into the form; a
\* disabled input takes no typing.
setAmount(u, text) ==
    /\ pc[u] = "idle"
    /\ Len(pendingBills(u)) > 0
    /\ ~AmountInputDisabled
    /\ paymentData' = [paymentData EXCEPT ![u].amount = text]
    /\ UNCHANGED <<viewVars, deskVars, storeVars, api, adminVars, cdBills, complaintData,
                   priorityEdited, pc, toast>>

\* The Payment Method control.
selectMethod(u, m) ==
    /\ pc[u] = "idle"
    /\ Len(pendingBills(u)) > 0
    /\ paymentData' = [paymentData EXCEPT ![u].payment_method = m]
    /\ UNCHANGED <<viewVars, deskVars, storeVars, api, adminVars, cdBills, complaintData,
                   priorityEdited, pc, toast>>

\* The row makePayment sends: no status, no payment date.
makePaymentRow(u) ==
    [bill_id |-> paymentData[u].bill_id,
     customer_id |-> ProfileOf(u),
     amount |-> ToJson(parseFloat(paymentData[u].amount)),
     payment_method |-> paymentData[u].payment_method,
     status |-> "absent"]

\* (variant) makePayment without `if (error) throw error` after the insert.
makePaymentInsertNoThrow(u, delivered) ==
    /\ pc[u] = "idle"
    /\ Len(pendingBills(u)) > 0
    /\ Len(payments) < MaxPayments
    /\ LET ok == delivered /\ PaymentInsertOk(u, makePaymentRow(u))
       IN /\ payments' = IF ok THEN Append(payments, PaymentInserted(makePaymentRow(u)))
                         ELSE payments
          /\ pc' = [pc EXCEPT ![u] = "awaitUpdate"]
          /\ toast' = toast
    /\ UNCHANGED <<viewVars, deskVars, profiles, bills, complaints, api, adminVars, cdBills,
                   paymentData, complaintData, priorityEdited>>

\* makePayment, first write: the payments insert. An error is thrown to the
\* catch block (error notification, nothing else); otherwise the handler goes
\* on to the bill update. The dialog exists only while pendingBills is not empty.
makePaymentInsert(u, delivered) ==
    /\ pc[u] = "idle"
    /\ Len(pendingBills(u)) > 0
    /\ Len(payments) < MaxPayments
    /\ LET ok == delivered /\ PaymentInsertOk(u, makePaymentRow(u))
       IN /\ payments' = IF ok THEN Append(payments, PaymentInserted(makePaymentRow(u)))
                         ELSE payments
          /\ pc' = [pc EXCEPT ![u] = IF ok THEN "awaitUpdate" ELSE "idle"]
          /\ toast' = [toast EXCEPT ![u] = IF ok THEN @ ELSE "error"]
    /\ UNCHANGED <<viewVars, deskVars, profiles, bills, complaints, api, adminVars, cdBills,
                   paymentData, complaintData, priorityEdited>>

\* makePayment, second write and the rest of the handler: the bills update to
\* 'paid' under the caller's identity, whose result is not looked at, then the
\* success notification, the form reset and a refetch.
makePaymentUpdate(u, delivered) ==
    /\ pc[u] = "awaitUpdate"
    /\ bills' = IF delivered THEN BillsAfterUpdate(u, paymentData[u].bill_id, StatusPaidPatch)
                ELSE bills
    /\ toast' = [toast EXCEPT ![u] = "success"]
    /\ paymentData' = [paymentData EXCEPT ![u] = EmptyPaymentData]
    /\ pc' = [pc EXCEPT ![u] = "idle"]
    /\ cdBills' = [cdBills EXCEPT ![u] = CustomerBillsOf(bills', u)]
    /\ UNCHANGED <<viewVars, deskVars, profiles, payments, complaints, api, adminVars,
                   complaintData, priorityEdited>>

\* The Profile form as filled from the profile: profile.phone_number || '',
\* profile.meter_number || ''.
ProfileFormOf(u) ==
    LET row == profiles[ProfileOf(u)]
        orEmpty(v) == IF v = "NULL" THEN "" ELSE v
    IN [phone_number |-> orEmpty(row.phone_number), meter_number |-> orEmpty(row.meter_number)]

\* fetchData as the requests it is made of. An invocation awaits one read at a
\* time: bills, then payments, then complaints; the record of an invocation
\* holds the read it awaits and the rows the store answered. Nothing orders
\* the invocations of one dashboard among themselves.
NoFetch == [step |-> "idle", rows |-> <<>>]

FetchIdle(u) == \A n \in 1..MaxFetches : inflight[u][n] = NoFetch

\* An invocation of fetchData by customer u, in the free slot n: nothing
\* without a profile, otherwise the bills read is sent.
fetchDataInvoked(u, n, profile) ==
    IF profile = "none" THEN inflight
    ELSE [inflight EXCEPT ![u][n] = [step |-> "bills", rows |-> CustomerBillsOf(bills, u)]]

\* useEffect(..., [profile]): the profile useProfile returns has changed to
\* profile; the Profile form is refilled from it and fetchData is invoked.
profileChange(u, n, profile) ==
    /\ inflight[u][n] = NoFetch
    /\ \A m \in 1..(n - 1) : inflight[u][m] # NoFetch
    /\ cdProfile' = [cdProfile EXCEPT ![u] = profile]
    /\ profileData' = [profileData EXCEPT ![u] = IF profile = "none" THEN @ ELSE ProfileFormOf(u)]
    /\ inflight' = fetchDataInvoked(u, n, profile)
    /\ startedAt' = [startedAt EXCEPT ![u] = IF profile = "none" THEN @ ELSE storeVars]
    /\ UNCHANGED <<cdPayments, cdComplaints, session, rendered, adComplaints, complaintsResponse,
                   customerRows, storeVars, api, adminVars, custVars>>

\* The response of the read invocation n awaits arrives (data is null when the
\* request failed, and the list is then set to []): the list is set and the
\* next read is sent, or the invocation is over.
receiveRead(u, n, delivered) ==
    LET inv == inflight[u][n]
        rows == IF delivered THEN inv.rows ELSE <<>>
    IN /\ inv.step # "idle"
       /\ cdBills' = [cdBills EXCEPT ![u] = IF inv.step = "bills" THEN rows ELSE @]
       /\ cdPayments' = [cdPayments EXCEPT ![u] = IF inv.step = "payments" THEN rows ELSE @]
       /\ cdComplaints' = [cdComplaints EXCEPT ![u] = IF inv.step = "complaints" THEN rows ELSE @]
       /\ inflight' = [inflight EXCEPT ![u][n] =
                         CASE inv.step = "bills" ->
                                [step |-> "payments", rows |-> CustomerPaymentsOf(payments, u)]
                           [] inv.step = "payments" ->
                                [step |-> "complaints", rows |-> CustomerComplaintsOf(complaints, u)]
                           [] OTHER -> NoFetch]
       /\ UNCHANGED <<cdProfile, startedAt, session, rendered, deskVars, storeVars, api, adminVars,
                      paymentData, complaintData, priorityEdited, pc, toast>>

\* The page is closed or reloaded: the component's state is gone, and a handler
\* waiting for a response never runs its remaining steps.
abandon(u) ==
    /\ cdBills' = [cdBills EXCEPT ![u] = <<>>]
    /\ paymentData' = [paymentData EXCEPT ![u] = EmptyPaymentData]
    /\ complaintData' = [complaintData EXCEPT ![u] = InitialComplaintData]
    /\ priorityEdited' = [priorityEdited EXCEPT ![u] = FALSE]
    /\ pc' = [pc EXCEPT ![u] = "idle"]
    /\ toast' = [toast EXCEPT ![u] = "none"]
    /\ profileData' = [profileData EXCEPT ![u] = ProfileFormOf(u)]
    /\ cdPayments' = [cdPayments EXCEPT ![u] = <<>>]
    /\ cdComplaints' = [cdComplaints EXCEPT ![u] = <<>>]
    /\ inflight' = [inflight EXCEPT ![u] = [n \in 1..MaxFetches |-> NoFetch]]
    /\ UNCHANGED <<cdProfile, startedAt, session, rendered, adComplaints, complaintsResponse,
                   customerRows, storeVars, api, adminVars>>

\* The Priority control of the New Complaint dialog.
setPriority(u, p) ==
    /\ complaintData' = [complaintData EXCEPT ![u].priority = p]
    /\ priorityEdited' = [priorityEdited EXCEPT ![u] = TRUE]
    /\ UNCHANGED <<viewVars, deskVars, storeVars, api, adminVars, cdBills, paymentData, pc, toast>>

\* The row submitComplaint sends: no status.
submitComplaintRow(u) ==
    [customer_id |-> ProfileOf(u),
     status |-> "absent",
     priority |-> complaintData[u].priority]

\* (variant) submitComplaint that leaves the form as submitted after a success.
submitComplaintNoReset(u, delivered) ==
    /\ Len(complaints) < MaxComplaints
    /\ LET ok == delivered /\ ComplaintInsertOk(u, submitComplaintRow(u))
       IN /\ complaints' = IF ok THEN Append(complaints, ComplaintInserted(submitComplaintRow(u)))
                           ELSE complaints
          /\ toast' = [toast EXCEPT ![u] = IF ok THEN "success" ELSE "error"]
          /\ complaintData' = complaintData
          /\ priorityEdited' = [priorityEdited EXCEPT ![u] = IF ok THEN FALSE ELSE @]
          /\ cdBills' = [cdBills EXCEPT ![u] = IF ok THEN CustomerFetchBills(u) ELSE @]
    /\ UNCHANGED <<viewVars, deskVars, profiles, bills, payments, api, adminVars, paymentData, pc>>

\* submitComplaint: the insert, then on success the notification, the form
\* reset to its initial values and a refetch; on error the notification only.
submitComplaint(u, delivered) ==
    /\ Len(complaints) < MaxComplaints
    /\ LET ok == delivered /\ ComplaintInsertOk(u, submitComplaintRow(u))
       IN /\ complaints' = IF ok THEN Append(complaints, ComplaintInserted(submitComplaintRow(u)))
                           ELSE complaints
          /\ toast' = [toast EXCEPT ![u] = IF ok THEN "success" ELSE "error"]
          /\ complaintData' = [complaintData EXCEPT ![u] = IF ok THEN [priority |-> "medium"] ELSE @]
          /\ priorityEdited' = [priorityEdited EXCEPT ![u] = IF ok THEN FALSE ELSE @]
          /\ cdBills' = [cdBills EXCEPT ![u] = IF ok THEN CustomerFetchBills(u) ELSE @]
    /\ UNCHANGED <<viewVars, deskVars, profiles, bills, payments, api, adminVars, paymentData, pc>>

\* The Profile form: phone number and meter number inputs (the address input
\* behaves as the phone number's).
typeProfile(u, field, text) ==
    /\ profileData' = [profileData EXCEPT ![u][field] = text]
    /\ UNCHANGED <<viewVars, storeVars, api, adminVars, custVars, adComplaints, complaintsResponse,
                   customerRows>>

\* useProfile().updateProfile(updates): an update of the signed-in user's own
\* profile row with the fields given, under that user's identity.
updateProfile(u, updates) ==
    [error |-> ProfileUpdateError(u, OwnProfiles(u), updates),
     profiles |-> ProfilesAfterUpdate(u, OwnProfiles(u), updates)]

\* updateProfileInfo: updateProfile(profileData), then the success or the
\* error notification.
updateProfileInfo(u, delivered) ==
    /\ LET updates == [phone_number |-> profileData[u].phone_number,
                       meter_number |-> profileData[u].meter_number,
                       is_admin |-> "absent"]
           res == updateProfile(u, updates)
       IN /\ profiles' = IF delivered THEN res.profiles ELSE profiles
          /\ toast' = [toast EXCEPT ![u] = IF delivered /\ ~res.error THEN "success" ELSE "error"]
    /\ UNCHANGED <<viewVars, deskVars, bills, payments, complaints, api, adminVars, cdBills,
                   paymentData, complaintData, priorityEdited, pc>>

\* Direct inserts into payments and complaints.
ApiInsertPayment(u, row) ==
    /\ Len(payments) < MaxPayments
    /\ payments' = IF PaymentInsertOk(u, row) THEN Append(payments, PaymentInserted(row))
                   ELSE payments
    /\ api' = [caller |-> u, op |-> "insert_payments", error |-> ~PaymentInsertOk(u, row)]
    /\ UNCHANGED <<viewVars, deskVars, profiles, bills, complaints, adminVars, custVars>>

ApiInsertComplaint(u, row) ==
    /\ Len(complaints) < MaxComplaints
    /\ complaints' = IF ComplaintInsertOk(u, row) THEN Append(complaints, ComplaintInserted(row))
                     ELSE complaints
    /\ api' = [caller |-> u, op |-> "insert_complaints", error |-> ~ComplaintInsertOk(u, row)]
    /\ UNCHANGED <<viewVars, deskVars, profiles, bills, payments, adminVars, custVars>>

\* Patches of a complaint a direct caller may send: closing it.
ClosePatch == [status |-> "closed", admin_response |-> "absent", priority |-> "absent"]

\* A direct update of a complaint.
ApiUpdateComplaint(u, id, patch) ==
    /\ id \in 1..Len(complaints)
    /\ complaints' = ComplaintsAfterUpdate(u, id, patch)
    /\ api' = [caller |-> u, op |-> "update_complaints",
               error |-> ComplaintUpdateError(u, id, patch)]
    /\ UNCHANGED <<viewVars, deskVars, profiles, bills, payments, adminVars, custVars>>

\* A direct update of a profile.
ApiUpdateProfile(u, p, patch) ==
    /\ profiles' = ProfilesAfterUpdate(u, {p}, patch)
    /\ api' = [caller |-> u, op |-> "update_profiles",
               error |-> ProfileUpdateError(u, {p}, patch)]
    /\ UNCHANGED <<viewVars, deskVars, bills, payments, complaints, adminVars, custVars>>

\* A direct delete of a row: of a profile, or of the row at position id of one
\* of the other tables.
ApiDelete(u, tbl, id) ==
    /\ profiles' = IF tbl = "profiles" /\ DeleteVisible(u, tbl, id)
                   THEN [q \in DOMAIN profiles \ {id} |-> profiles[q]] ELSE profiles
    /\ bills' = IF tbl = "bills" /\ DeleteVisible(u, tbl, id) THEN Removed(bills, id) ELSE bills
    /\ payments' = IF tbl = "payments" /\ DeleteVisible(u, tbl, id)
                   THEN Removed(payments, id) ELSE payments
    /\ complaints' = IF tbl = "complaints" /\ DeleteVisible(u, tbl, id)
                     THEN Removed(complaints, id) ELSE complaints
    /\ api' = [caller |-> u, op |-> "delete_" \o tbl, error |-> FALSE]
    /\ UNCHANGED <<viewVars, deskVars, adminVars, custVars>>

\* ---------------------------------------------------------- Dashboard page
\* What the hooks return before anything is known: still loading, no user, no
\* profile.
NoProfile == [id |-> "none", is_admin |-> "NULL"]
NoSession == [loading |-> TRUE, user |-> "none", profile |-> NoProfile]

\* What the two hooks can return: loading or not, a user or none, a profile
\* (its id and its is_admin, true, false or null) or none.
Sessions ==
    [loading : BOOLEAN,
     user : {"none"} \cup Users,
     profile : {NoProfile} \cup [id : ProfileIds, is_admin : {"true", "false", "NULL"}]]

\* (variant) a Dashboard that does not look at loading.
DashboardNoLoading(s) ==
    IF s.user = "none" \/ s.profile = NoProfile THEN "denied"
    ELSE IF s.profile.is_admin = "true" THEN "admin"
    ELSE "customer"

\* Dashboard: the loading card while loading; the Access Denied card without a
\* user or without a profile; otherwise the admin dashboard when
\* profile.is_admin is truthy and the customer dashboard when it is not.
Dashboard(s) ==
    IF s.loading THEN "loading"
    ELSE IF s.user = "none" \/ s.profile = NoProfile THEN "denied"
    ELSE IF s.profile.is_admin = "true" THEN "admin"
    ELSE "customer"

\* The hooks' state changes: what useAuth and useProfile return becomes s.
hooksChange(s) ==
    /\ session' = s
    /\ UNCHANGED <<rendered, cdProfile, cdPayments, cdComplaints, inflight, startedAt, deskVars, storeVars, api, adminVars,
                   custVars>>

\* React renders Dashboard with what the hooks return now.
render ==
    /\ rendered' = Dashboard(session)
    /\ UNCHANGED <<session, cdProfile, cdPayments, cdComplaints, inflight, startedAt, deskVars, storeVars, api, adminVars,
                   custVars>>

\* ------------------------------------------------------------ the system
\* The profiles of the three identities, none with a phone or meter number.
InitProfiles ==
    /\ profiles = [p \in ProfileIds |->
                     [user_id |-> CASE p = "pa" -> "ua" [] p = "p1" -> "u1" [] OTHER -> "u2",
                      is_admin |-> (p = "pa"),
                      phone_number |-> "NULL",
                      meter_number |-> "NULL"]]

\* The dashboards as they are when mounted, no request sent yet.
InitDashboards ==
    /\ api = NoApi
    /\ newBill = EmptyNewBill
    /\ customers = {}
    /\ adminToast = "none"
    /\ cdBills = [u \in Customers |-> <<>>]
    /\ paymentData = [u \in Customers |-> EmptyPaymentData]
    /\ complaintData = [u \in Customers |-> InitialComplaintData]
    /\ priorityEdited = [u \in Customers |-> FALSE]
    /\ pc = [u \in Customers |-> "idle"]
    /\ toast = [u \in Customers |-> "none"]
    /\ adComplaints = [s \in AdminSessions |-> <<>>]
    /\ complaintsResponse = [s \in AdminSessions |-> [i \in 1..MaxComplaints |-> ""]]
    /\ customerRows = NotFetched
    /\ profileData = [u \in Customers |-> ProfileFormOf(u)]
    /\ cdProfile = [u \in Customers |-> ProfileOf(u)]
    /\ cdPayments = [u \in Customers |-> <<>>]
    /\ cdComplaints = [u \in Customers |-> <<>>]
    /\ inflight = [u \in Customers |-> [n \in 1..MaxFetches |-> NoFetch]]
    /\ startedAt = [u \in Customers |-> <<>>]
    /\ session = NoSession
    /\ rendered = Dashboard(NoSession)

\* After the migration: the three tables empty.
Init ==
    /\ InitProfiles
    /\ bills = <<>>
    /\ payments = <<>>
    /\ complaints = <<>>
    /\ InitDashboards

\* Bills the admin creates in the bill scenarios: for the first customer, or
\* with no customer chosen.
BillForms == {f \in NewBillForms : f.customer_id \in {"", "p1"}}

\* Bills: the admin dashboard's createBill and every bill write the store's
\* policies are asked to decide.
NextBill ==
    \/ fetchDataAdmin
    \/ \E f \in BillForms, delivered \in BOOLEAN : createBill(f, delivered)
    \/ \E u \in {"ua", "u1"}, row \in BillRows : ApiInsertBill(u, row)
    \/ \E u \in {"ua", "u1"}, id \in 1..MaxBills, patch \in BillPatches : ApiUpdateBill(u, id, patch)

SpecBill == Init /\ [][NextBill]_vars

\* The customer whose dashboard is followed step by step.
Payer == "u1"

\* Bills the admin creates in the payment scenarios: readings 100 and 150.
PayBillForms ==
    {f \in NewBillForms : /\ f.customer_id # ""
                          /\ f.previous_reading = Text(10000)
                          /\ f.current_reading = Text(15000)}

\* Payment rows a direct caller may send: any bill, either customer.
PaymentRows ==
    [bill_id : 1..MaxBills, customer_id : {"p1", "p2"}, amount : {Num(100)},
     payment_method : {"mpesa"}, status : {"absent"}]

\* Payments: bills created by the admin, a customer's dashboard paying them,
\* and direct payment inserts.
NextPay ==
    \/ fetchDataAdmin
    \/ \E f \in PayBillForms : createBill(f, TRUE)
    \/ fetchBills(Payer)
    \/ \E k \in 1..MaxBills : selectBill(Payer, k)
    \/ selectMethod(Payer, "mpesa")
    \/ \E delivered \in BOOLEAN : makePaymentInsert(Payer, delivered)
    \/ \E delivered \in BOOLEAN : makePaymentUpdate(Payer, delivered)
    \/ abandon(Payer)
    \/ \E row \in PaymentRows : ApiInsertPayment(Payer, row)

SpecPay == Init /\ [][NextPay]_vars

\* Complaint rows a direct caller may send: either customer as the owner.
ComplaintRows ==
    [customer_id : {"p1", "p2"}, status : {"absent"}, priority : {"absent"}]

\* Bills and direct payment rows of the ownership scenarios: bills of the
\* paying customer, payments for the first bill in either customer's name.
OwnBillForms == {f \in PayBillForms : f.customer_id = ProfileOf(Payer)}
OwnPaymentRows == {row \in PaymentRows : row.bill_id = 1}

\* Ownership of payments and complaints: the customer's dashboard creating
\* both, and direct inserts by the customer and by the admin.
NextOwn ==
    \/ fetchDataAdmin
    \/ \E f \in OwnBillForms : createBill(f, TRUE)
    \/ fetchBills(Payer)
    \/ \E k \in 1..MaxBills : selectBill(Payer, k)
    \/ selectMethod(Payer, "mpesa")
    \/ makePaymentInsert(Payer, TRUE)
    \/ makePaymentUpdate(Payer, TRUE)
    \/ submitComplaint(Payer, TRUE)
    \/ \E u \in {AdminUser, Payer}, row \in OwnPaymentRows : ApiInsertPayment(u, row)
    \/ \E u \in {AdminUser, Payer}, row \in ComplaintRows : ApiInsertComplaint(u, row)

SpecOwn == Init /\ [][NextOwn]_vars

\* Complaints: the customer's New Complaint dialog over a session and across
\* page reloads.
NextComplaint ==
    \/ \E p \in Priorities : setPriority(Payer, p)
    \/ \E delivered \in BOOLEAN : submitComplaint(Payer, delivered)
    \/ abandon(Payer)

SpecComplaint == Init /\ [][NextComplaint]_vars

\* Values of the enumerated columns sent by direct callers: a member of the
\* set, a text outside it, and null.
EnumBillPatches ==
    { [StatusPaidPatch EXCEPT !.status = v] : v \in {"overdue", "bogus", "NULL"} }

EnumPaymentRows ==
    [bill_id : {1}, customer_id : {"p1"}, amount : {Num(100)},
     payment_method : {"cash", "bogus", "NULL"}, status : {"failed", "bogus", "NULL"}]

EnumComplaintRows ==
    [customer_id : {"p1"}, status : {"absent", "bogus", "NULL"},
     priority : {"urgent", "bogus", "NULL"}]

EnumComplaintPatches ==
    { [ClosePatch EXCEPT !.status = v] : v \in {"closed", "bogus", "NULL"} }

\* Enumerated columns: bills created by the admin, and direct inserts and
\* updates by the callers the policies admit.
NextEnum ==
    \/ fetchDataAdmin
    \/ \E f \in OwnBillForms : createBill(f, TRUE)
    \/ \E id \in 1..MaxBills, patch \in EnumBillPatches : ApiUpdateBill(AdminUser, id, patch)
    \/ \E row \in EnumPaymentRows : ApiInsertPayment(Payer, row)
    \/ \E row \in EnumComplaintRows : ApiInsertComplaint(Payer, row)
    \/ \E id \in 1..MaxComplaints, patch \in EnumComplaintPatches :
         ApiUpdateComplaint(Payer, id, patch)

SpecEnum == Init /\ [][NextEnum]_vars

\* Every operation of the two dashboards, and delete requests a customer sends
\* directly for their own profile and their first complaint.
DeleteTargets == {<<"profiles", "p1">>, <<"complaints", 1>>}

NextApp ==
    \/ fetchDataAdmin
    \/ \E f \in OwnBillForms : createBill(f, TRUE)
    \/ fetchBills(Payer)
    \/ selectBill(Payer, 1)
    \/ selectMethod(Payer, "mpesa")
    \/ makePaymentInsert(Payer, TRUE)
    \/ makePaymentUpdate(Payer, TRUE)
    \/ submitComplaint(Payer, TRUE)
    \/ fetchComplaints("s1")
    \/ updateComplaintStatus("s1", 1, "resolved", TRUE)
    \/ typeProfile(Payer, "phone_number", "0700")
    \/ updateProfileInfo(Payer, TRUE)
    \/ \E t \in DeleteTargets : ApiDelete(Payer, t[1], t[2])

SpecApp == Init /\ [][NextApp]_vars

\* Two identities writing the same row: the admin and the owning customer
\* updating a bill (the admin directly, the customer through makePayment) and
\* a complaint (the admin through updateComplaintStatus, the customer directly).
OverduePatch == [StatusPaidPatch EXCEPT !.status = "overdue"]
OwnerComplaintPatch == [status |-> "open", admin_response |-> "mine", priority |-> "absent"]

NextLww ==
    \/ fetchDataAdmin
    \/ \E f \in OwnBillForms : createBill(f, TRUE)
    \/ fetchBills(Payer)
    \/ \E k \in 1..MaxBills : selectBill(Payer, k)
    \/ selectMethod(Payer, "mpesa")
    \/ makePaymentInsert(Payer, TRUE)
    \/ makePaymentUpdate(Payer, TRUE)
    \/ \E id \in 1..MaxBills : ApiUpdateBill(AdminUser, id, OverduePatch)
    \/ submitComplaint(Payer, TRUE)
    \/ fetchComplaints("s1")
    \/ \E k \in 1..MaxComplaints : updateComplaintStatus("s1", k, "in_progress", TRUE)
    \/ \E id \in 1..MaxComplaints : ApiUpdateComplaint(Payer, id, OwnerComplaintPatch)

SpecLww == Init /\ [][NextLww]_vars

\* Refetching: the admin's customers list read again and again, between and
\* after the creation of bills, and a customer refetching their bills.
NextFetch ==
    \/ \E order \in [1..Cardinality(Customers) -> ProfileIds] : fetchCustomers(order)
    \/ \E f \in BillForms : createBill(f, TRUE)
    \/ fetchBills(Payer)

SpecFetch == Init /\ [][NextFetch]_vars

\* Profiles: a customer saving the Profile form, and direct updates of the
\* customers' profiles by the admin and by a customer: a contact field, the
\* admin flag.
ProfilePatches ==
    { [phone_number |-> "0711", meter_number |-> "absent", is_admin |-> "absent"],
      [phone_number |-> "absent", meter_number |-> "absent", is_admin |-> "true"] }

NextProfile ==
    \/ \E t \in {"", "0700"} : typeProfile(Payer, "phone_number", t)
    \/ \E t \in {"", "M1"} : typeProfile(Payer, "meter_number", t)
    \/ \E delivered \in BOOLEAN : updateProfileInfo(Payer, delivered)
    \/ \E u \in {AdminUser, Payer}, p \in {"p1", "p2"}, patch \in ProfilePatches :
         ApiUpdateProfile(u, p, patch)

SpecProfile == Init /\ [][NextProfile]_vars

\* Payment amounts: the first bill's tariff changed by the admin after the
\* customer listed it, the customer paying through the dialog, and direct
\* payment inserts by the customer for the first bill with amounts of their
\* choosing (1.00, -5.00).
RatePatch == [StatusPaidPatch EXCEPT !.status = "absent", !.rate_per_unit = Num(33)]

AmountTexts == {Text(100), Text(-500)}

AmountRows ==
    [bill_id : {1}, customer_id : {"p1"}, amount : {Num(100), Num(-500)},
     payment_method : {"cash"}, status : {"absent"}]

NextAmount ==
    \/ fetchDataAdmin
    \/ \E f \in OwnBillForms : createBill(f, TRUE)
    \/ ApiUpdateBill(AdminUser, 1, RatePatch)
    \/ fetchBills(Payer)
    \/ \E k \in 1..MaxBills : selectBill(Payer, k)
    \/ selectMethod(Payer, "mpesa")
    \/ makePaymentInsert(Payer, TRUE)
    \/ makePaymentUpdate(Payer, TRUE)
    \/ \E row \in AmountRows : ApiInsertPayment(Payer, row)

SpecAmount == Init /\ [][NextAmount]_vars

\* Failing writes: bills and complaints are created, and each of the four
\* handlers is run with a request the store refuses (no current reading typed,
\* no payment method chosen) or that is lost.
RetryBillForms ==
    {f \in NewBillForms : f.customer_id = "p1" /\ f.previous_reading = Text(10000)}

NextRetry ==
    \/ fetchDataAdmin
    \/ \E f \in RetryBillForms : createBill(f, TRUE)
    \/ fetchBills(Payer)
    \/ selectBill(Payer, 1)
    \/ makePaymentInsert(Payer, TRUE)
    \/ setPriority(Payer, "high")
    \/ \E delivered \in BOOLEAN : submitComplaint(Payer, delivered)
    \/ fetchComplaints("s1")
    \/ typeResponse("s1", 1, "r1")
    \/ updateComplaintStatus("s1", 1, "resolved", FALSE)

SpecRetry == Init /\ [][NextRetry]_vars

\* The customer dashboard's lists. The store holds a bill and a payment of
\* each customer and a complaint of the second one; the first customer files
\* complaints while its dashboard fetches its lists as its profile comes,
\* goes and changes; every read is answered, the responses arriving as they
\* may.
ViewBill(p) ==
    BillInserted(createBillRow([customer_id |-> p, previous_reading |-> Text(10000),
                                current_reading |-> Text(15000)]))
ViewPayment(p, bill) ==
    PaymentInserted([bill_id |-> bill, customer_id |-> p, amount |-> Num(100),
                     payment_method |-> "mpesa", status |-> "absent"])
ViewComplaintRow(p) == [customer_id |-> p, status |-> "absent", priority |-> "absent"]

InitView ==
    /\ InitProfiles
    /\ bills = <<ViewBill("p2"), ViewBill("p1")>>
    /\ payments = <<ViewPayment("p2", 1), ViewPayment("p1", 2)>>
    /\ complaints = <<ComplaintInserted(ViewComplaintRow("p2"))>>
    /\ InitDashboards

NextView ==
    \/ ApiInsertComplaint(Payer, ViewComplaintRow("p1"))
    \/ \E n \in 1..MaxFetches, profile \in {"none", ProfileOf(Payer)} :
         profileChange(Payer, n, profile)
    \/ \E n \in 1..MaxFetches : receiveRead(Payer, n, TRUE)

SpecView == InitView /\ [][NextView]_vars

\* The Dashboard page: the hooks' values change in any way and the page is
\* rendered.
NextPage ==
    \/ \E s \in Sessions : hooksChange(s)
    \/ render

SpecPage == Init /\ [][NextPage]_vars

\* The complaints desk: a customer files complaints; the admin, with the
\* dashboard open in two sessions, fetches the list, types a response in the
\* first session (the second leaves the box empty) and presses Mark In
\* Progress / Mark Resolved; a request may be lost.
NextDesk ==
    \/ submitComplaint(Payer, TRUE)
    \/ \E s \in AdminSessions : fetchComplaints(s)
    \/ \E k \in 1..MaxComplaints : typeResponse("s1", k, "r1")
    \/ \E s \in AdminSessions, k \in 1..MaxComplaints,
          st \in {"in_progress", "resolved"}, delivered \in BOOLEAN :
         updateComplaintStatus(s, k, st, delivered)

SpecDesk == Init /\ [][NextDesk]_vars

\* Outstanding bills: the admin bills the first customer, changes the first
\* bill's tariff and marks bills overdue; the customer's dashboard fetches its
\* bills and chooses one in the Make Payment dialog.
NextOutstanding ==
    \/ fetchDataAdmin
    \/ \E f \in OwnBillForms : createBill(f, TRUE)
    \/ ApiUpdateBill(AdminUser, 1, RatePatch)
    \/ \E id \in 1..MaxBills : ApiUpdateBill(AdminUser, id, OverduePatch)
    \/ fetchBills(Payer)
    \/ \E k \in 1..MaxBills : selectBill(Payer, k)

SpecOutstanding == Init /\ [][NextOutstanding]_vars

\* Responses: the customer files a complaint and reads its complaints list;
\* the first admin session types a response and marks the newest complaint it
\* lists in progress, the second types none and marks it resolved.
NextErase ==
    \/ submitComplaint(Payer, TRUE)
    \/ fetchOwnComplaints(Payer)
    \/ \E s \in AdminSessions : fetchComplaints(s)
    \/ typeResponse("s1", 1, "r1")
    \/ updateComplaintStatus("s1", 1, "in_progress", TRUE)
    \/ updateComplaintStatus("s2", 1, "resolved", TRUE)

SpecErase == Init /\ [][NextErase]_vars

\* The pending-complaints figure: one admin session fetching and marking
\* complaints, and complaints closed by a direct update (no operation of the
\* dashboards writes 'closed').
NextCount ==
    \/ submitComplaint(Payer, TRUE)
    \/ fetchComplaints("s1")
    \/ \E k \in 1..MaxComplaints, st \in {"in_progress", "resolved"} :
         updateComplaintStatus("s1", k, st, TRUE)
    \/ \E id \in 1..MaxComplaints : ApiUpdateComplaint(AdminUser, id, ClosePatch)

SpecCount == Init /\ [][NextCount]_vars

\* ------------------------------------------------------------------ bills
AllNewBillForms ==
    [customer_id : {""} \cup ProfileIds,
     previous_reading : PreviousTexts,
     current_reading : CurrentTexts]

\* C1 (as stated): every bill row has units_consumed = current_reading -
\* previous_reading and amount exactly units_consumed * rate_per_unit, and the
\* application's own writes carry neither generated column.
C1_DerivedFieldsExact ==
    /\ \A i \in 1..Len(bills) :
        /\ bills[i].units_consumed = bills[i].current_reading - bills[i].previous_reading
        /\ bills[i].amount * Scale = bills[i].units_consumed * bills[i].rate_per_unit
    /\ \A f \in AllNewBillForms :
        createBillRow(f).units_consumed.k = "absent" /\ createBillRow(f).amount.k = "absent"
    /\ StatusPaidPatch.units_consumed.k = "absent" /\ StatusPaidPatch.amount.k = "absent"

\* C1 (amended): every bill row has units_consumed = current_reading -
\* previous_reading and amount equal to units_consumed * rate_per_unit rounded
\* to the column's two fractional digits (nearest hundredth, a tie away from
\* zero); the product is exact whenever the rate is the default tariff. The
\* application's own writes carry neither generated column.
C1_DerivedFieldsRounded ==
    /\ \A i \in 1..Len(bills) :
        LET b == bills[i]
            exact == b.units_consumed * b.rate_per_unit
            diff == b.amount * Scale - exact
        IN /\ b.units_consumed = b.current_reading - b.previous_reading
           /\ 2 * diff <= Scale /\ 2 * diff >= -Scale
           /\ (2 * diff = Scale => exact > 0)
           /\ (2 * diff = -Scale => exact < 0)
           /\ (b.rate_per_unit = DefaultRate => diff = 0)
    /\ \A f \in AllNewBillForms :
        createBillRow(f).units_consumed.k = "absent" /\ createBillRow(f).amount.k = "absent"
    /\ StatusPaidPatch.units_consumed.k = "absent" /\ StatusPaidPatch.amount.k = "absent"

\* C1 witness: a bill whose tariff an admin changed to a fractional rate and
\* whose status was written, holding the rounded amount.
C1_Witness ==
    \E i \in 1..Len(bills) :
        /\ bills[i].rate_per_unit # DefaultRate
        /\ bills[i].status = "paid"
        /\ bills[i].amount * Scale # bills[i].units_consumed * bills[i].rate_per_unit

\* C2: a bill createBill creates from readings p <= c is stored with those
\* readings, units_consumed = c - p and amount = (c - p) * 50, the default
\* tariff; previous 100 and current 150 give 50 units and an amount of 2500.
C2_CreateBillAmount ==
    [][\A f \in AllNewBillForms, d \in BOOLEAN :
         LET p == parseFloat(f.previous_reading)
             c == parseFloat(f.current_reading)
             b == bills'[Len(bills')]
         IN (/\ createBill(f, d)
             /\ Len(bills') = Len(bills) + 1
             /\ p.k = "num" /\ c.k = "num" /\ p.v <= c.v)
            => /\ b.previous_reading = p.v /\ b.current_reading = c.v
               /\ b.rate_per_unit = 5000
               /\ b.units_consumed = c.v - p.v
               /\ b.amount * 100 = (c.v - p.v) * 5000
               /\ (f.previous_reading = Text(10000) /\ f.current_reading = Text(15000)
                     => b.units_consumed = 5000 /\ b.amount = 250000)]_vars

\* C2 witness: createBill has stored the bill for readings 100 and 150.
C2_Witness ==
    /\ adminToast = "success"
    /\ Len(bills) >= 1
    /\ bills[Len(bills)].previous_reading = 10000
    /\ bills[Len(bills)].current_reading = 15000
    /\ bills[Len(bills)].units_consumed = 5000
    /\ bills[Len(bills)].amount = 250000

\* C3: a createBill whose current reading is below the previous one, sent by
\* an admin for a chosen customer and delivered, is accepted, and the bill is
\* stored with the negative units_consumed and amount the formula gives.
C3_NegativePreserved ==
    [][\A f \in AllNewBillForms :
         LET p == parseFloat(f.previous_reading)
             c == parseFloat(f.current_reading)
             b == bills'[Len(bills')]
         IN (/\ createBill(f, TRUE)
             /\ f \in NewBillForms
             /\ IsAdminCaller(AdminUser)
             /\ f.customer_id # ""
             /\ p.k = "num" /\ c.k = "num" /\ c.v < p.v)
            => /\ Len(bills') = Len(bills) + 1
               /\ adminToast' = "success"
               /\ b.units_consumed = c.v - p.v /\ b.units_consumed < 0
               /\ b.amount * 100 = (c.v - p.v) * 5000 /\ b.amount < 0]_vars

\* C3 witness: createBill has stored a bill with negative consumption.
C3_Witness ==
    /\ adminToast = "success"
    /\ Len(bills) >= 1
    /\ bills[Len(bills)].current_reading < bills[Len(bills)].previous_reading
    /\ bills[Len(bills)].units_consumed < 0
    /\ bills[Len(bills)].amount < 0

\* C8: a bill insert by a caller who is no admin is rejected and leaves bills
\* unchanged; an admin's delivered createBill for a chosen customer and a
\* numeric current reading is accepted, and an accepted createBill appends
\* exactly one bill, with status 'pending'; bills never grows otherwise than
\* by one row inserted by an admin.
C8_OnlyAdminCreatesBills ==
    [][/\ \A u \in Users, row \in BillRows :
            (ApiInsertBill(u, row) /\ ~IsAdminCaller(u)) => (bills' = bills /\ api'.error)
       /\ \A f \in AllNewBillForms, d \in BOOLEAN :
            createBill(f, d) =>
              /\ (d /\ IsAdminCaller(AdminUser) /\ f.customer_id # "" /\ f.current_reading # EmptyText
                    => adminToast' = "success")
              /\ (adminToast' = "success"
                    => /\ Len(bills') = Len(bills) + 1
                       /\ SubSeq(bills', 1, Len(bills)) = bills
                       /\ bills'[Len(bills')].status = "pending")
              /\ (adminToast' = "error" => bills' = bills)
       /\ Len(bills') # Len(bills) =>
            /\ Len(bills') = Len(bills) + 1
            /\ \E u \in Users :
                 /\ IsAdminCaller(u)
                 /\ \/ (u = AdminUser /\ \E f \in AllNewBillForms : createBill(f, TRUE))
                    \/ \E row \in BillRows : ApiInsertBill(u, row)]_vars

\* C8 witness: an admin's createBill has added a pending bill and a customer's
\* own insert has then been rejected.
C8_Witness ==
    /\ Len(bills) = 1
    /\ bills[1].status = "pending"
    /\ adminToast = "success"
    /\ api = [caller |-> "u1", op |-> "insert_bills", error |-> TRUE]

\* --------------------------------------------------------------- payments
\* The customer's makePayment is waiting to send, or sending, its bill update
\* for bill b, which is the customer's own and pending.
PayingOwnPending(u, b) ==
    /\ pc[u] = "awaitUpdate"
    /\ b = paymentData[u].bill_id
    /\ b \in 1..Len(bills)
    /\ bills[b].customer_id = ProfileOf(u)
    /\ bills[b].status = "pending"

HasPayment(u, b) ==
    \E i \in 1..Len(payments) :
        payments[i].bill_id = b /\ payments[i].customer_id = ProfileOf(u)

\* C4 (as stated): when a customer's makePayment for an own pending bill has
\* had its payment insert accepted and its bill update delivered and answered
\* without error, the bill's status is 'paid' from then on.
C4_PaidAfterPayment ==
    [][\A b \in 1..MaxBills :
         (/\ PayingOwnPending(Payer, b)
          /\ HasPayment(Payer, b)
          /\ makePaymentUpdate(Payer, TRUE)
          /\ ~BillUpdateError(Payer, b, StatusPaidPatch))
         => bills'[b].status = "paid"]_vars

\* C5 (as stated): between makePayment's two writes a payment exists for a
\* bill that is still 'pending'; a second write that is skipped (the page is
\* left) or lost leaves the bill 'pending' with the payment recorded, and a
\* second write that is delivered and answered without error leaves it 'paid'
\* with the payment recorded.
C5_TwoWritesOutcomes ==
    [][\A b \in 1..MaxBills :
         PayingOwnPending(Payer, b) =>
           /\ HasPayment(Payer, b)
           /\ (abandon(Payer) \/ makePaymentUpdate(Payer, FALSE))
                => (bills'[b].status = "pending" /\ HasPayment(Payer, b)')
           /\ (makePaymentUpdate(Payer, TRUE) /\ ~BillUpdateError(Payer, b, StatusPaidPatch))
                => (bills'[b].status = "paid" /\ HasPayment(Payer, b)')]_vars

\* C6: makePayment reaches its bill update only through a payment insert of
\* the same execution that returned without error, for the same bill and the
\* caller's profile; an insert that returns an error (or is lost) ends the
\* execution with the error notification and no write to bills; and every
\* bill update of makePayment finds that payment row in the store.
C6_UpdateOnlyAfterInsert ==
    [][/\ (pc[Payer] = "idle" /\ pc'[Payer] = "awaitUpdate")
            => /\ Len(payments') = Len(payments) + 1
               /\ payments'[Len(payments')].bill_id = paymentData[Payer].bill_id
               /\ payments'[Len(payments')].customer_id = ProfileOf(Payer)
               /\ paymentData' = paymentData
               /\ bills' = bills
       /\ \A d \in BOOLEAN :
            (makePaymentInsert(Payer, d) /\ ~(d /\ PaymentInsertOk(Payer, makePaymentRow(Payer))))
              => (pc'[Payer] = "idle" /\ bills' = bills /\ payments' = payments
                  /\ toast'[Payer] = "error")
       /\ \A d \in BOOLEAN :
            makePaymentUpdate(Payer, d)
              => /\ pc[Payer] = "awaitUpdate"
                 /\ HasPayment(Payer, paymentData[Payer].bill_id)]_vars

\* C6 witness: makePayment has had its insert accepted and is about to send
\* the bill update, after an earlier execution ended at a rejected insert.
C6_Witness ==
    /\ pc[Payer] = "awaitUpdate"
    /\ toast[Payer] = "error"
    /\ HasPayment(Payer, paymentData[Payer].bill_id)

\* C7 (as stated): every payment row references an existing bill, and its
\* customer_id is the customer_id of that bill.
C7_PaymentMatchesBill ==
    \A i \in 1..Len(payments) :
        /\ payments[i].bill_id \in 1..Len(bills)
        /\ payments[i].customer_id = bills[payments[i].bill_id].customer_id

\* ----------------------------------------------------------------- owners
\* C9: an insert into payments or complaints whose customer_id is no profile
\* of the caller is rejected and leaves the store unchanged; makePayment and
\* submitComplaint send the caller's own profile id; and neither table grows
\* except by one row whose customer_id is a profile of the identity inserting it.
C9_CreatedByOwner ==
    [][/\ \A u \in Users, row \in PaymentRows :
            (ApiInsertPayment(u, row) /\ row.customer_id \notin OwnProfiles(u))
              => (storeVars' = storeVars /\ api'.error)
       /\ \A u \in Users, row \in ComplaintRows :
            (ApiInsertComplaint(u, row) /\ row.customer_id \notin OwnProfiles(u))
              => (storeVars' = storeVars /\ api'.error)
       /\ makePaymentRow(Payer).customer_id \in OwnProfiles(Payer)
       /\ submitComplaintRow(Payer).customer_id \in OwnProfiles(Payer)
       /\ Len(payments') # Len(payments) =>
            /\ Len(payments') = Len(payments) + 1
            /\ SubSeq(payments', 1, Len(payments)) = payments
            /\ \/ \E u \in Customers, d \in BOOLEAN :
                    /\ payments'[Len(payments')].customer_id \in OwnProfiles(u)
                    /\ makePaymentInsert(u, d)
               \/ \E u \in Users, row \in PaymentRows :
                    /\ payments'[Len(payments')].customer_id \in OwnProfiles(u)
                    /\ ApiInsertPayment(u, row)
       /\ Len(complaints') # Len(complaints) =>
            /\ Len(complaints') = Len(complaints) + 1
            /\ SubSeq(complaints', 1, Len(complaints)) = complaints
            /\ \/ \E u \in Customers, d \in BOOLEAN :
                    /\ complaints'[Len(complaints')].customer_id \in OwnProfiles(u)
                    /\ submitComplaint(u, d)
               \/ \E u \in Users, row \in ComplaintRows :
                    /\ complaints'[Len(complaints')].customer_id \in OwnProfiles(u)
                    /\ ApiInsertComplaint(u, row)]_vars

\* C9 witness: the customer has a payment and a complaint of their own in the
\* store, and the admin's insert of a payment in the customer's name has just
\* been rejected.
C9_Witness ==
    /\ \E i \in 1..Len(payments) : payments[i].customer_id = ProfileOf(Payer)
    /\ \E i \in 1..Len(complaints) : complaints[i].customer_id = ProfileOf(Payer)
    /\ toast[Payer] = "success"
    /\ api = [caller |-> AdminUser, op |-> "insert_payments", error |-> TRUE]

\* ------------------------------------------------------------- complaints
\* C10: a complaint submitComplaint creates is stored with status 'open' and
\* the priority held by the form; when the priority field was not changed
\* since the form was opened or last reset by a successful submission, the
\* stored priority is 'medium'.
C10_ComplaintDefaults ==
    [][\A d \in BOOLEAN :
         (submitComplaint(Payer, d) /\ Len(complaints') = Len(complaints) + 1)
           => LET c == complaints'[Len(complaints')]
              IN /\ c.status = "open"
                 /\ c.priority = complaintData[Payer].priority
                 /\ c.customer_id = ProfileOf(Payer)
                 /\ (~priorityEdited[Payer] => c.priority = "medium")]_vars

\* C10 witness: in one session a complaint of priority 'high' was submitted
\* and then a second one with the priority field left alone.
C10_Witness ==
    /\ Len(complaints) = 2
    /\ complaints[1].priority = "high" /\ complaints[1].status = "open"
    /\ complaints[2].priority = "medium" /\ complaints[2].status = "open"
    /\ toast[Payer] = "success"
    /\ ~priorityEdited[Payer]

\* -------------------------------------------------------------- complaints
\* C11: updateComplaintStatus persists the new status and the admin response in
\* one update: in every step each complaint either keeps both its status and
\* its response, or takes both from one call of updateComplaintStatus (the
\* status of the button pressed and the response text of that session); no
\* step leaves a complaint with the new status and the previous response or
\* the other way round.
C11_StatusAndResponseTogether ==
    [][\A i \in 1..Len(complaints) :
          (complaints'[i].status # complaints[i].status
             \/ complaints'[i].admin_response # complaints[i].admin_response)
          => \E s \in AdminSessions, k \in 1..MaxComplaints,
                st \in {"in_progress", "resolved"} :
                /\ k <= Len(adComplaints[s])
                /\ adComplaints[s][k].id = i
                /\ updateComplaintStatus(s, k, st, TRUE)
                /\ complaints'[i].status = st
                /\ complaints'[i].admin_response = complaintsResponse[s][i]]_vars

\* A complaint resolved from a session whose response box is empty while the
\* other session holds a typed response: the row holds the status and the
\* (empty) response of the one call.
C11_Witness ==
    \E i \in 1..Len(complaints) :
        /\ complaints[i].status = "resolved"
        /\ complaints[i].admin_response = ""
        /\ \E s \in AdminSessions : complaintsResponse[s][i] = "r1"

\* C12: the pending-complaints figure of a session is the number of complaints
\* in its fetched list whose status is exactly 'open'; entries that are
\* in_progress, resolved or closed are not counted, and after a successful
\* Mark Resolved, whose refetch is part of the handler, the complaint is not
\* among those counted.
C12_PendingCountsOpenOnly ==
    [][/\ \A s \in AdminSessions :
            /\ PendingIn(adComplaints'[s])
                 = Cardinality({k \in 1..Len(adComplaints'[s]) :
                                  adComplaints'[s][k].status = "open"})
            /\ PendingIn(adComplaints'[s])
                 + Cardinality({k \in 1..Len(adComplaints'[s]) :
                                  adComplaints'[s][k].status
                                    \in {"in_progress", "resolved", "closed"}})
                 = Len(adComplaints'[s])
       /\ \A s \in AdminSessions, k \in 1..MaxComplaints :
            updateComplaintStatus(s, k, "resolved", TRUE)
            => /\ \A j \in 1..Len(adComplaints'[s]) :
                    adComplaints'[s][j].id = adComplaints[s][k].id
                    => adComplaints'[s][j].status = "resolved"
               /\ PendingIn(adComplaints'[s])
                    = Cardinality({i \in 1..Len(complaints') :
                                     i # adComplaints[s][k].id
                                     /\ complaints'[i].status = "open"})]_vars

\* After a successful Mark Resolved: a fetched list holding the resolved
\* complaint next to an open one, with a pending figure of one.
C12_Witness ==
    \E s \in AdminSessions :
        /\ Len(adComplaints[s]) >= 2
        /\ \E k \in 1..Len(adComplaints[s]) : adComplaints[s][k].status = "resolved"
        /\ \E k \in 1..Len(adComplaints[s]) : adComplaints[s][k].status = "open"
        /\ pendingComplaints(s) = 1
        /\ adminToast = "success"

\* C13: resolved and closed are terminal: once the stored status of a complaint
\* is 'resolved' or 'closed', no step of the admin dashboard (Mark In Progress,
\* Mark Resolved, from any session, whatever list it holds) changes its status
\* or its response.
C13_ResolvedIsTerminal ==
    [][\A i \in 1..Len(complaints) :
          complaints[i].status \in {"resolved", "closed"}
          => /\ complaints'[i].status = complaints[i].status
             /\ complaints'[i].admin_response = complaints[i].admin_response]_vars

\* ------------------------------------------------------- enumerated columns
\* C14: every bill's status is one of pending, paid, overdue; every payment's
\* method is one of mpesa, bank_transfer, cash and its status one of pending,
\* completed, failed; every complaint's status is one of open, in_progress,
\* resolved, closed and its priority one of low, medium, high, urgent.
C14_EnumeratedValues ==
    /\ \A i \in 1..Len(bills) : bills[i].status \in BillStatuses
    /\ \A i \in 1..Len(payments) :
          /\ payments[i].payment_method \in PaymentMethods
          /\ payments[i].status \in PaymentStatuses
    /\ \A i \in 1..Len(complaints) :
          /\ complaints[i].status \in ComplaintStatuses
          /\ complaints[i].priority \in Priorities

\* ------------------------------------------------------------ notifications
\* C15: every store failure inside makePayment is surfaced: when the payment
\* insert or the bill update fails (refused, or the request lost), the error
\* notification is shown, and the success notification is shown only when
\* both writes succeeded.
C15_FailuresSurfaced ==
    [][/\ \A delivered \in BOOLEAN :
            makePaymentInsert(Payer, delivered)
            /\ ~(delivered /\ PaymentInsertOk(Payer, makePaymentRow(Payer)))
            => toast'[Payer] = "error"
       /\ \A delivered \in BOOLEAN :
            makePaymentUpdate(Payer, delivered)
            => /\ toast'[Payer] = "success" => delivered
               /\ ~delivered => toast'[Payer] = "error"]_vars

\* ---------------------------------------------------------------- deletion
\* C16: no operation of the application deletes a row: in every step of the
\* dashboards' operations (and of a delete request sent directly) the sets of
\* profiles, bills, payments and complaints keep every member; a row's
\* identifier keeps naming a row of the same owner.
C16_NoRowDeleted ==
    [][/\ DOMAIN profiles \subseteq DOMAIN profiles'
       /\ Len(bills') >= Len(bills)
       /\ Len(payments') >= Len(payments)
       /\ Len(complaints') >= Len(complaints)
       /\ \A i \in 1..Len(bills) : bills'[i].customer_id = bills[i].customer_id
       /\ \A i \in 1..Len(payments) : payments'[i].bill_id = payments[i].bill_id
       /\ \A i \in 1..Len(complaints) :
             complaints'[i].customer_id = complaints[i].customer_id]_vars

\* Every table holds rows, the profile was saved from the Profile form, and a
\* delete request of the customer has been answered.
C16_Witness ==
    /\ Len(bills) = MaxBills /\ Len(payments) >= 1 /\ Len(complaints) >= 1
    /\ profiles["p1"].phone_number = "0700"
    /\ \E i \in 1..Len(complaints) : complaints[i].status = "resolved"
    /\ api = [caller |-> Payer, op |-> "delete_complaints", error |-> FALSE]

\* ------------------------------------------------------- concurrent updates
\* C17: updates of the same row by two identities are both applied, the row
\* holding the values of the one the store applied last: after each update
\* step of a bill (the admin's, the customer's in makePayment) the bill has
\* that update's status, and after each update step of a complaint (the
\* admin's updateComplaintStatus, the owner's) the complaint has that update's
\* status and admin_response.
C17_LastUpdateWins ==
    [][/\ \A id \in 1..Len(bills) :
            ApiUpdateBill(AdminUser, id, OverduePatch) => bills'[id].status = "overdue"
       /\ makePaymentUpdate(Payer, TRUE)
            => bills'[paymentData[Payer].bill_id].status = "paid"
       /\ \A id \in 1..Len(complaints) :
            ApiUpdateComplaint(Payer, id, OwnerComplaintPatch)
            => /\ complaints'[id].status = "open"
               /\ complaints'[id].admin_response = "mine"
       /\ \A k \in 1..Len(adComplaints["s1"]) :
            updateComplaintStatus("s1", k, "in_progress", TRUE)
            => /\ complaints'[adComplaints["s1"][k].id].status = "in_progress"
               /\ complaints'[adComplaints["s1"][k].id].admin_response
                    = complaintsResponse["s1"][adComplaints["s1"][k].id]]_vars

\* --------------------------------------------------------------- refetching
\* C18: refetching the customers list with no write since the previous read
\* (the tables are what they were at that read) returns the same rows in the
\* same order.
C18_RefetchSameOrder ==
    [][\A order \in [1..Cardinality(Customers) -> ProfileIds] :
          fetchCustomers(order) /\ customerRows.seen = storeVars
          => customerRows'.rows = customerRows.rows]_vars

\* ----------------------------------------------------------------- profiles
\* C19: a profile is mutated only by its owning user, who changes only contact
\* fields, or by an admin, who may change any field of any profile: an admin's
\* update of a customer's profile is applied by the store, and a step in which
\* the caller is the profile's owner leaves its admin flag and its owner as
\* they were (updateProfileInfo included).
C19_ProfileMutation ==
    [][/\ \A p \in {"p1", "p2"}, patch \in ProfilePatches :
            ApiUpdateProfile(AdminUser, p, patch)
            => profiles'[p] = ProfilePatched(profiles[p], patch)
       /\ \A p \in {"p1", "p2"} :
            (\/ \E delivered \in BOOLEAN : updateProfileInfo(profiles[p].user_id, delivered)
             \/ \E patch \in ProfilePatches : ApiUpdateProfile(profiles[p].user_id, p, patch))
            => /\ profiles'[p].is_admin = profiles[p].is_admin
               /\ profiles'[p].user_id = profiles[p].user_id]_vars

\* ---------------------------------------------------------- payment amounts
\* C20 (as stated): through makePayment a customer may submit any amount:
\* whenever the Make Payment dialog is open with a bill selected, each amount
\* text can be put into the form.
C20_AnyAmountThroughDialog ==
    (pc[Payer] = "idle" /\ Len(pendingBills(Payer)) > 0 /\ paymentData[Payer].bill_id # 0)
    => \A text \in AmountTexts : ENABLED setAmount(Payer, text)

\* C20 (amended): neither makePayment nor the store validates the amount. The
\* store accepts a customer's payment for an existing bill with any numeric
\* amount, whatever the bill's amount. Through the dialog the amount is not
\* free: it changes only when a bill is selected, to that bill's amount as
\* listed, or when the form is reset, and makePayment stores the form's
\* amount for the form's bill.
C20_AmountNotValidated ==
    [][/\ \A row \in AmountRows :
            ApiInsertPayment(Payer, row) /\ row.bill_id <= Len(bills)
            => payments' = Append(payments, PaymentInserted(row))
       /\ \A k \in 1..MaxBills :
            selectBill(Payer, k)
            => /\ paymentData'[Payer].bill_id = pendingBills(Payer)[k].id
               /\ paymentData'[Payer].amount = toString(pendingBills(Payer)[k].amount)
       /\ paymentData'[Payer].amount # paymentData[Payer].amount
            => \/ \E k \in 1..MaxBills : selectBill(Payer, k)
               \/ paymentData'[Payer] = EmptyPaymentData
       /\ makePaymentInsert(Payer, TRUE) /\ payments' # payments
            => /\ payments'[Len(payments')].bill_id = paymentData[Payer].bill_id
               /\ Text(payments'[Len(payments')].amount) = paymentData[Payer].amount]_vars

\* A payment made through the dialog for the amount listed when the bill was
\* selected (2500.00), while the bill's amount has since become another.
C20_Witness ==
    /\ pc[Payer] = "awaitUpdate"
    /\ payments[Len(payments)].amount = 250000
    /\ bills[payments[Len(payments)].bill_id].amount # 250000

C22_NoTransitionValidation ==
    [][\A s \in AdminSessions, k \in 1..MaxComplaints, st \in {"in_progress", "resolved"} :
          updateComplaintStatus(s, k, st, TRUE)
          => /\ complaints'[adComplaints[s][k].id].status = st
             /\ \A j \in 1..Len(complaints) :
                  j # adComplaints[s][k].id => complaints'[j] = complaints[j]]_vars

\* A complaint stored as in_progress while a session's list, refetched when
\* that session resolved it, shows it resolved: the request of the other
\* session took it from resolved to in_progress.
C22_Witness ==
    \E i \in 1..Len(complaints), s \in AdminSessions :
        /\ complaints[i].status = "in_progress"
        /\ \E k \in 1..Len(adComplaints[s]) :
              adComplaints[s][k].id = i /\ adComplaints[s][k].status = "resolved"

\* ------------------------------------------------------- the customer's lists
\* C23: every row a customer dashboard displays, in its bills, payments and
\* complaints lists, and every row a read of it was answered with, is a row
\* of that customer's own profile; and fetchData invoked while the profile is
\* absent sends no read.
C23_OwnRowsOnly ==
    [][\A u \in Customers :
         /\ \A k \in 1..Len(cdBills'[u]) :
               bills'[cdBills'[u][k].id].customer_id \in OwnProfiles(u)
         /\ \A k \in 1..Len(cdPayments'[u]) :
               payments'[cdPayments'[u][k].id].customer_id \in OwnProfiles(u)
         /\ \A k \in 1..Len(cdComplaints'[u]) :
               complaints'[cdComplaints'[u][k].id].customer_id \in OwnProfiles(u)
         /\ \A n \in 1..MaxFetches :
               /\ inflight'[u][n].step = "bills" =>
                     \A k \in 1..Len(inflight'[u][n].rows) :
                        bills'[inflight'[u][n].rows[k].id].customer_id \in OwnProfiles(u)
               /\ inflight[u][n] = NoFetch /\ inflight'[u][n] # NoFetch
                     => cdProfile'[u] # "none"
               /\ \A profile \in {"none"} : profileChange(u, n, profile)
                     => inflight' = inflight]_vars

\* The store holds bills, payments and complaints of both customers and the
\* first customer's dashboard displays rows in all three lists.
C23_Witness ==
    /\ \E i \in 1..Len(bills) : bills[i].customer_id = "p2"
    /\ \E i \in 1..Len(payments) : payments[i].customer_id = "p2"
    /\ \E i \in 1..Len(complaints) : complaints[i].customer_id = "p2"
    /\ cdBills[Payer] # <<>> /\ cdPayments[Payer] # <<>> /\ cdComplaints[Payer] # <<>>
    /\ FetchIdle(Payer)

\* ------------------------------------------------------- payments of a bill
\* C24: nothing limits a bill to one payment: whenever the Make Payment
\* dialog holds a bill chosen from the list and a payment method, the store
\* accepts the payment makePayment sends, however many payments already name
\* that bill.
C24_PaymentAlwaysAccepted ==
    \A u \in Customers :
      paymentData[u].bill_id # 0 /\ paymentData[u].payment_method \in PaymentMethods
      => PaymentInsertOk(u, makePaymentRow(u))

\* Two payments of the first customer name the same bill, both made from the
\* dashboard, and the bill is still pending.
C24_Witness ==
    /\ Len(payments) >= 2
    /\ payments[1].bill_id = payments[2].bill_id
    /\ payments[1].customer_id = "p1" /\ payments[2].customer_id = "p1"
    /\ bills[payments[1].bill_id].status = "pending"
    /\ pc[Payer] = "idle" /\ toast[Payer] = "success"

\* C25: in every state where a customer's dashboard has no fetchData
\* invocation and no makePayment in flight and the store is as it was when
\* fetchData was last invoked (no write since), the three displayed lists are
\* the customer's rows of the three tables.
C25_SettledListsCurrent ==
    \A u \in Customers :
      FetchIdle(u) /\ pc[u] = "idle" /\ startedAt[u] = storeVars
      => /\ cdBills[u] = CustomerBillsOf(bills, u)
         /\ cdPayments[u] = CustomerPaymentsOf(payments, u)
         /\ cdComplaints[u] = CustomerComplaintsOf(complaints, u)

\* C26: no write a customer sends about its own profile, from the Profile
\* form (updateProfileInfo) or directly to the profiles table, turns that
\* profile's is_admin from false to true.
C26_NoSelfEscalation ==
    [][\A u \in Customers :
         (\/ \E delivered \in BOOLEAN : updateProfileInfo(u, delivered)
          \/ \E patch \in ProfilePatches : ApiUpdateProfile(u, ProfileOf(u), patch))
         /\ ~profiles[ProfileOf(u)].is_admin
         => ~profiles'[ProfileOf(u)].is_admin]_vars

\* C27: every update updateComplaintStatus gets through stores, as the
\* complaint's admin_response, the text the session holds for that complaint,
\* '' when it holds none, whatever response was stored before; and with ''
\* stored the customer's complaints list, read afterwards, shows no Admin
\* Response box for the complaint.
C27_ResponseReplaced ==
    [][\A s \in AdminSessions, st \in {"in_progress", "resolved"} :
         updateComplaintStatus(s, 1, st, TRUE)
         => LET id == adComplaints[s][1].id
                list == CustomerComplaintsOf(complaints', Payer)
            IN /\ complaints'[id].admin_response = complaintsResponse[s][id]
               /\ complaintsResponse[s][id] = ""
                    => \A k \in 1..Len(list) : list[k].id = id => ~AdminResponseShown(list[k])]_vars

\* The customer's list, read earlier, shows the response "r1" of a complaint
\* whose stored response is now '': the second session, holding no text,
\* marked it resolved.
C27_Witness ==
    \E k \in 1..Len(cdComplaints[Payer]) :
       LET c == cdComplaints[Payer][k]
       IN /\ c.admin_response = "r1" /\ AdminResponseShown(c)
          /\ complaints[c.id].admin_response = ""
          /\ complaints[c.id].status = "resolved"

\* C28: the Outstanding Bills figure is the number of bills whose status is
\* 'pending' in the fetched list and Total Outstanding the sum of their
\* amounts; every choice made in the Select Bill control puts into the form a
\* bill that the list shows as pending, never one it shows as overdue.
C28_PendingOnly ==
    [][\A u \in Customers :
         LET list == cdBills[u]
             pending == {j \in 1..Len(list) : list[j].status = "pending"}
             total[n \in 0..Len(list)] ==
                 IF n = 0 THEN 0
                 ELSE total[n - 1] + (IF n \in pending THEN list[n].amount ELSE 0)
         IN /\ outstandingBills(u) = Cardinality(pending)
            /\ totalOutstanding(u) = total[Len(list)]
            /\ \A k \in 1..MaxBills :
                  selectBill(u, k)
                  => \E j \in pending : list[j].id = paymentData'[u].bill_id]_vars

\* The fetched list holds a pending bill and an overdue one of another
\* amount; the figures count the pending one and it is the bill chosen.
C28_Witness ==
    /\ Len(cdBills[Payer]) = 2
    /\ cdBills[Payer][1].status = "pending" /\ cdBills[Payer][2].status = "overdue"
    /\ cdBills[Payer][1].amount # cdBills[Payer][2].amount
    /\ outstandingBills(Payer) = 1
    /\ totalOutstanding(Payer) = cdBills[Payer][1].amount
    /\ paymentData[Payer].bill_id = cdBills[Payer][1].id

\* C30: whenever Dashboard renders, it shows the admin dashboard exactly when
\* loading is over, a user and a profile are present and profile.is_admin is
\* true; the customer dashboard exactly when loading is over, both are present
\* and is_admin is not true; the Access Denied card when loading is over and
\* the user or the profile is missing; and the loading card, neither
\* dashboard, while loading.
C30_DashboardGate ==
    [][render =>
         LET present == session.user # "none" /\ session.profile # NoProfile
             admin == session.profile.is_admin = "true"
         IN /\ rendered' = "admin" <=> ~session.loading /\ present /\ admin
            /\ rendered' = "customer" <=> ~session.loading /\ present /\ ~admin
            /\ rendered' = "denied" <=> ~session.loading /\ ~present
            /\ rendered' = "loading" <=> session.loading]_vars

\* The admin dashboard is on screen for a signed-in user whose profile is an
\* admin's, loading over.
C30_Witness ==
    /\ rendered = "admin"
    /\ session = [loading |-> FALSE, user |-> "ua",
                  profile |-> [id |-> "pa", is_admin |-> "true"]]

\* C29: every payment made from the dashboard is stored with status
\* 'completed', and no step of any operation of the two dashboards changes or
\* removes a stored payment, the bill update of makePayment included.
C29_PaymentsCompletedAndKept ==
    [][/\ \A i \in 1..Len(payments) : i <= Len(payments') /\ payments'[i] = payments[i]
       /\ \A i \in 1..Len(payments') : payments'[i].status = "completed"]_vars

\* A payment is stored as completed, its handler has finished, and the
\* dashboards went on: a complaint was filed and resolved, the profile saved.
C29_Witness ==
    /\ Len(payments) >= 1 /\ payments[1].status = "completed"
    /\ pc[Payer] = "idle" /\ paymentData[Payer] = EmptyPaymentData
    /\ \E i \in 1..Len(complaints) : complaints[i].status = "resolved"
    /\ profiles["p1"].phone_number = "0700"
    /\ Len(bills) = MaxBills

====
